---- MODULE Spec2Model ----
(***************************************************************************)
(* A model of the dual-number library DualNumbers::dual<T>                 *)
(* (src/DualNumber/DualNumber.hpp) and of the Newton-Raphson driver        *)
(* (src/DualNumber/DualNumber.cpp).                                        *)
(*                                                                         *)
(* The value type T is modelled as double with exact arithmetic: a scalar  *)
(* is a sign s, a numerator n and a denominator d.  d > 0 is a finite      *)
(* rational (kept in lowest terms; zero keeps its sign, as an IEEE zero    *)
(* does), n/d = 1/0 is an infinity and 0/0 is NaN.  Rounding is not        *)
(* modelled.                                                               *)
(***************************************************************************)
EXTENDS Integers, Sequences, FiniteSets, TLC

VARIABLES p, q, r, hist, nw

vars == <<p, q, r, hist, nw>>

\* ------------------------------------------------------------------------
\* Bounds of the model.

\* The components of a constructed operand range over -MaxVal..MaxVal.
MaxVal == 2
\* The number of arithmetic operations applied to the constructed operands.
MaxOps == 1
\* The longest chain of in-place unary operations applied to one object.
MaxChain == 2
\* cbrt is applied to the cubes of -MaxRoot..MaxRoot.
MaxRoot == 2
\* The loop of newtonMethod is followed for MaxIter iterations.
MaxIter == 2

\* ------------------------------------------------------------------------
\* The value type T (double): exact arithmetic with IEEE special values.

RECURSIVE Gcd(_, _)
Gcd(x, y) == IF y = 0 THEN x ELSE Gcd(y, x % y)

Abs(i) == IF i < 0 THEN -i ELSE i

NaN == [s |-> 1, n |-> 0, d |-> 0]

Norm(s, n, d) ==
    IF d = 0 THEN (IF n = 0 THEN NaN ELSE [s |-> s, n |-> 1, d |-> 0])
    ELSE IF n = 0 THEN [s |-> s, n |-> 0, d |-> 1]
    ELSE LET g == Gcd(n, d) IN [s |-> s, n |-> n \div g, d |-> d \div g]

\* T(i) for an integer literal i, and the rational i/j (j > 0).
Frac(i, j) == Norm(IF i < 0 THEN -1 ELSE 1, Abs(i), j)
T(i) == Frac(i, 1)

IsNaN(x) == x.n = 0 /\ x.d = 0
IsInf(x) == x.n # 0 /\ x.d = 0
IsFinite(x) == x.d # 0
IsZero(x) == x.n = 0 /\ x.d # 0

\* -x
RNeg(x) == IF IsNaN(x) THEN NaN ELSE [x EXCEPT !.s = -x.s]

\* x * y : 0 * inf is NaN.  Common factors are cancelled before multiplying.
RMul(x, y) ==
    IF IsNaN(x) \/ IsNaN(y) THEN NaN
    ELSE IF x.n = 0 \/ y.n = 0 \/ x.d = 0 \/ y.d = 0
         THEN Norm(x.s * y.s, x.n * y.n, x.d * y.d)
    ELSE LET g1 == Gcd(x.n, y.d)
             g2 == Gcd(y.n, x.d)
         IN  [s |-> x.s * y.s,
              n |-> (x.n \div g1) * (y.n \div g2),
              d |-> (x.d \div g2) * (y.d \div g1)]

\* 1 / x, between the finite values and the infinities.
RRecip(x) == IF IsNaN(x) THEN NaN ELSE Norm(x.s, x.d, x.n)

\* x / y : 0/0 and inf/inf are NaN, a nonzero x over zero is an infinity.
RDiv(x, y) == RMul(x, RRecip(y))

\* x + y : inf + (-inf) is NaN; an exact zero sum is +0 unless both are -0.
RAdd(x, y) ==
    IF IsNaN(x) \/ IsNaN(y) THEN NaN
    ELSE IF IsInf(x) THEN (IF IsInf(y) /\ y.s # x.s THEN NaN ELSE x)
    ELSE IF IsInf(y) THEN y
    ELSE LET g == Gcd(x.d, y.d)
             num == x.s * x.n * (y.d \div g) + y.s * y.n * (x.d \div g)
         IN  IF num = 0
             THEN [s |-> IF x.s = -1 /\ y.s = -1 THEN -1 ELSE 1, n |-> 0, d |-> 1]
             ELSE Norm(IF num < 0 THEN -1 ELSE 1, Abs(num), (x.d \div g) * y.d)

\* x - y
RSub(x, y) == RAdd(x, RNeg(y))

\* x == y on T: NaN equals nothing, the two zeros are equal.
REq(x, y) ==
    /\ ~IsNaN(x)
    /\ ~IsNaN(y)
    /\ \/ IsZero(x) /\ IsZero(y)
       \/ x = y

\* x < y on T: false when either is NaN.
RLess(x, y) ==
    /\ ~IsNaN(x)
    /\ ~IsNaN(y)
    /\ ~REq(x, y)
    /\ LET d == RSub(x, y) IN ~IsNaN(d) /\ d.s = -1

\* ------------------------------------------------------------------------
\* dual<T>: the fields m_a and m_b.

\* dual(T a, T b)
Dual(a, b) == [a |-> a, b |-> b]

\* dual(T a, T b = T(0.0)) called with one argument
DualOf(a) == Dual(a, T(0))

Zero == Dual(T(0), T(0))

ID_Add == Zero

ID_Mul == Dual(T(0), T(0))

\* operator== : std::tie(m_a, m_b) == std::tie(rhs.m_a, rhs.m_b)
DualEq(x, y) == REq(x.a, y.a) /\ REq(x.b, y.b)

DualFinite(x) == IsFinite(x.a) /\ IsFinite(x.b)

\* The operands a caller constructs: finite, integer components.
Scalars == {T(i) : i \in -MaxVal..MaxVal}
Duals == {Dual(a, b) : a \in Scalars, b \in Scalars}

\* The caller's two dual objects p and q, and the temporaries t and u an
\* expression makes.
Objs == {"p", "q"}
Mem(x, y) == [p |-> x, q |-> y, t |-> Zero, u |-> Zero]

\* Compound assignments, statement by statement, on the object this (named
\* t) with the right operand read through the reference rh: when rh names
\* the object t itself, each read of rhs sees what was already written.
AddAssign(m, t, rh) ==
    LET m1 == [m EXCEPT ![t].a = RAdd(m[t].a, m[rh].a)]
        m2 == [m1 EXCEPT ![t].b = RAdd(m1[t].b, m1[rh].b)]
    IN  m2

SubAssign(m, t, rh) ==
    LET m1 == [m EXCEPT ![t].a = RSub(m[t].a, m[rh].a)]
        m2 == [m1 EXCEPT ![t].b = RSub(m1[t].b, m1[rh].b)]
    IN  m2

\* operator*= with m_a updated before m_b has read it.
MulAssignValueFirst(m, t, rh) ==
    LET m1 == [m EXCEPT ![t].a = RMul(m[t].a, m[rh].a)]
        m2 == [m1 EXCEPT ![t].b = RMul(m1[t].b, m1[rh].a)]
        m3 == [m2 EXCEPT ![t].b = RAdd(m2[t].b, RMul(m2[t].a, m2[rh].b))]
    IN  m3

MulAssign(m, t, rh) ==
    LET m1 == [m EXCEPT ![t].b = RMul(m[t].b, m[rh].a)]
        m2 == [m1 EXCEPT ![t].b = RAdd(m1[t].b, RMul(m1[t].a, m1[rh].b))]
        m3 == [m2 EXCEPT ![t].a = RMul(m2[t].a, m2[rh].a)]
    IN  m3

\* operator/= dividing m_b by rhs.m_a instead of its square.
DivAssignNoSquare(m, t, rh) ==
    LET m1 == [m EXCEPT ![t].b = RMul(m[t].b, m[rh].a)]
        m2 == [m1 EXCEPT ![t].b = RSub(m1[t].b, RMul(m1[t].a, m1[rh].b))]
        m3 == [m2 EXCEPT ![t].b = RDiv(m2[t].b, m2[rh].a)]
        m4 == [m3 EXCEPT ![t].a = RDiv(m3[t].a, m3[rh].a)]
    IN  m4

\* operator/= returning *this untouched when rhs.m_a is zero.
DivAssignGuarded(m, t, rh) ==
    IF IsZero(m[rh].a) THEN m
    ELSE LET m1 == [m EXCEPT ![t].b = RMul(m[t].b, m[rh].a)]
             m2 == [m1 EXCEPT ![t].b = RSub(m1[t].b, RMul(m1[t].a, m1[rh].b))]
             m3 == [m2 EXCEPT ![t].b = RDiv(m2[t].b, RMul(m2[rh].a, m2[rh].a))]
             m4 == [m3 EXCEPT ![t].a = RDiv(m3[t].a, m3[rh].a)]
         IN  m4

DivAssign(m, t, rh) ==
    LET m1 == [m EXCEPT ![t].b = RMul(m[t].b, m[rh].a)]
        m2 == [m1 EXCEPT ![t].b = RSub(m1[t].b, RMul(m1[t].a, m1[rh].b))]
        m3 == [m2 EXCEPT ![t].b = RDiv(m2[t].b, RMul(m2[rh].a, m2[rh].a))]
        m4 == [m3 EXCEPT ![t].a = RDiv(m3[t].a, m3[rh].a)]
    IN  m4

\* The binary operators: dual<T>{lhs} op= rhs, on the temporary t.
Plus(m, l, rh) == AddAssign([m EXCEPT !.t = m[l]], "t", rh)
Minus(m, l, rh) == SubAssign([m EXCEPT !.t = m[l]], "t", rh)
Times(m, l, rh) == MulAssign([m EXCEPT !.t = m[l]], "t", rh)
Over(m, l, rh) == DivAssign([m EXCEPT !.t = m[l]], "t", rh)

\* operator/(const T lhs, const dual<T>& rhs): dual<T>{lhs} /= rhs
ScalarOver(m, s, rh) == DivAssign([m EXCEPT !.t = DualOf(s)], "t", rh)

\* inverted() dividing m_b by -(m_a + m_a) instead of -(m_a * m_a).
InvertedSumForSquare(m, t) ==
    LET m1 == [m EXCEPT ![t].a = RDiv(T(1), m[t].a)]
        m2 == [m1 EXCEPT ![t].b = RDiv(m1[t].b, RNeg(RAdd(m1[t].a, m1[t].a)))]
    IN  m2

\* inverted(): m_a = T(1.0) / m_a; m_b /= -(m_a * m_a); return *this
Inverted(m, t) ==
    LET m1 == [m EXCEPT ![t].a = RDiv(T(1), m[t].a)]
        m2 == [m1 EXCEPT ![t].b = RDiv(m1[t].b, RNeg(RMul(m1[t].a, m1[t].a)))]
    IN  m2

\* conjugated(): m_b = -m_b; return *this
Conjugated(m, t) == [m EXCEPT ![t].b = RNeg(m[t].b)]

\* inverse() and conjugate(): this->inverted() and this->conjugated()
Inverse(m, t) == Inverted(m, t)
Conjugate(m, t) == Conjugated(m, t)

\* The free functions inverted(dual<T>& dual) and conjugated(dual<T>& dual):
\* dual.inverse() or dual.conjugate(), then a copy of dual is returned.
InvertedFree(m, t) == Inverse(m, t)
ConjugatedFree(m, t) == Conjugate(m, t)

\* ------------------------------------------------------------------------
\* The state: the caller's objects p and q, the value r the last operation
\* returned, and hist, one entry per operation applied since the objects
\* were constructed: its name, the objects as they were before it, the
\* right operand's object, the scalar argument, and whether the operation
\* raised an error (no statement of the library does).  nw is the state of
\* newtonMethod.

Entry(name, rh, sc) ==
    [op |-> name, p |-> p, q |-> q, rh |-> rh, sc |-> sc, raised |-> FALSE]

NoNewton == [pc |-> "idle"]

Init ==
    /\ p \in Duals
    /\ q \in Duals
    /\ r = Zero
    /\ hist = <<>>
    /\ nw = NoNewton

\* An operation that took the memory Mem(p, q) to m1 and returned rv.
Applied(name, rh, sc, m1, rv) ==
    /\ p' = m1.p
    /\ q' = m1.q
    /\ r' = rv
    /\ hist' = Append(hist, Entry(name, rh, sc))
    /\ UNCHANGED nw

\* p += rhs, p -= rhs, p *= rhs, p /= rhs: rhs is the other object or p
\* itself; each returns the reference to p.
OpAddAssign ==
    /\ Len(hist) < MaxOps
    /\ \E rh \in Objs :
        LET m1 == AddAssign(Mem(p, q), "p", rh)
        IN  Applied("add_assign", rh, T(0), m1, m1.p)

OpSubAssign ==
    /\ Len(hist) < MaxOps
    /\ \E rh \in Objs :
        LET m1 == SubAssign(Mem(p, q), "p", rh)
        IN  Applied("sub_assign", rh, T(0), m1, m1.p)

OpMulAssign ==
    /\ Len(hist) < MaxOps
    /\ \E rh \in Objs :
        LET m1 == MulAssign(Mem(p, q), "p", rh)
        IN  Applied("mul_assign", rh, T(0), m1, m1.p)

OpDivAssign ==
    /\ Len(hist) < MaxOps
    /\ \E rh \in Objs :
        LET m1 == DivAssign(Mem(p, q), "p", rh)
        IN  Applied("div_assign", rh, T(0), m1, m1.p)

\* p + rhs, p - rhs, p * rhs, p / rhs: each returns its temporary.
OpPlus ==
    /\ Len(hist) < MaxOps
    /\ \E rh \in Objs :
        LET m1 == Plus(Mem(p, q), "p", rh)
        IN  Applied("plus", rh, T(0), m1, m1.t)

OpMinus ==
    /\ Len(hist) < MaxOps
    /\ \E rh \in Objs :
        LET m1 == Minus(Mem(p, q), "p", rh)
        IN  Applied("minus", rh, T(0), m1, m1.t)

OpTimes ==
    /\ Len(hist) < MaxOps
    /\ \E rh \in Objs :
        LET m1 == Times(Mem(p, q), "p", rh)
        IN  Applied("times", rh, T(0), m1, m1.t)

OpOver ==
    /\ Len(hist) < MaxOps
    /\ \E rh \in Objs :
        LET m1 == Over(Mem(p, q), "p", rh)
        IN  Applied("over", rh, T(0), m1, m1.t)

\* s / q for the scalar s = p.a()
OpScalarOver ==
    /\ Len(hist) < MaxOps
    /\ LET m1 == ScalarOver(Mem(p, q), p.a, "q")
       IN  Applied("scalar_over", "q", p.a, m1, m1.t)

\* p * dual<T>::ID_Mul(), dual<T>::ID_Mul() * p and p + dual<T>::ID_Add():
\* the identity is the temporary u.
OpTimesId ==
    /\ Len(hist) < MaxOps
    /\ LET m1 == Times([Mem(p, q) EXCEPT !.u = ID_Mul], "p", "u")
       IN  Applied("times_id", "u", T(0), m1, m1.t)

OpIdTimes ==
    /\ Len(hist) < MaxOps
    /\ LET m1 == Times([Mem(p, q) EXCEPT !.u = ID_Mul], "u", "p")
       IN  Applied("id_times", "p", T(0), m1, m1.t)

OpPlusId ==
    /\ Len(hist) < MaxOps
    /\ LET m1 == Plus([Mem(p, q) EXCEPT !.u = ID_Add], "p", "u")
       IN  Applied("plus_id", "u", T(0), m1, m1.t)

Next ==
    \/ OpAddAssign
    \/ OpSubAssign
    \/ OpMulAssign
    \/ OpDivAssign
    \/ OpPlus
    \/ OpMinus
    \/ OpTimes
    \/ OpOver
    \/ OpScalarOver
    \/ OpTimesId
    \/ OpIdTimes
    \/ OpPlusId

Spec == Init /\ [][Next]_vars

\* ------------------------------------------------------------------------
\* The in-place unary operations on one object p, chained.

InitUnary ==
    /\ p \in Duals
    /\ q = Zero
    /\ r = Zero
    /\ hist = <<>>
    /\ nw = NoNewton

\* p.inverse() and p.conjugate() return nothing.
OpInverse ==
    /\ Len(hist) < MaxChain
    /\ Applied("inverse", "p", T(0), Inverse(Mem(p, q), "p"), r)

OpConjugate ==
    /\ Len(hist) < MaxChain
    /\ Applied("conjugate", "p", T(0), Conjugate(Mem(p, q), "p"), r)

\* p.inverted() and p.conjugated() return the reference to p.
OpInverted ==
    /\ Len(hist) < MaxChain
    /\ LET m1 == Inverted(Mem(p, q), "p")
       IN  Applied("inverted", "p", T(0), m1, m1.p)

OpConjugated ==
    /\ Len(hist) < MaxChain
    /\ LET m1 == Conjugated(Mem(p, q), "p")
       IN  Applied("conjugated", "p", T(0), m1, m1.p)

\* inverted(p) and conjugated(p), the free functions, return a copy of p.
OpInvertedFree ==
    /\ Len(hist) < MaxChain
    /\ LET m1 == InvertedFree(Mem(p, q), "p")
       IN  Applied("inverted_free", "p", T(0), m1, m1.p)

OpConjugatedFree ==
    /\ Len(hist) < MaxChain
    /\ LET m1 == ConjugatedFree(Mem(p, q), "p")
       IN  Applied("conjugated_free", "p", T(0), m1, m1.p)

NextUnary ==
    \/ OpInverse
    \/ OpConjugate
    \/ OpInverted
    \/ OpConjugated
    \/ OpInvertedFree
    \/ OpConjugatedFree

SpecUnary == InitUnary /\ [][NextUnary]_vars

\* ------------------------------------------------------------------------
\* The elementary and special functions (namespace cmath).  The scalar
\* provider's functions are computed where their value is exact and kept
\* symbolic where it is not.

\* std::pow(x, y) for a finite x > 0 and an integer y.
RECURSIVE IntPow(_, _)
IntPow(x, k) == IF k = 0 THEN T(1) ELSE RMul(x, IntPow(x, k - 1))

StdPow(x, y) ==
    IF y.s = 1 THEN IntPow(x, y.n) ELSE RRecip(IntPow(x, y.n))

\* std::cbrt(x) for a finite x whose numerator and denominator are cubes.
CubeRoot(k) == CHOOSE j \in 0..k : j * j * j = k

StdCbrt(x) == Norm(x.s, CubeRoot(x.n), CubeRoot(x.d))

\* log(x) for a finite x > 0 is kept symbolic: a value of pow's derivative
\* is rat + ln * log(f.a()), and log(1) is 0.
LnConst(x) == [rat |-> x, ln |-> T(0)]
StdLog(x) == IF REq(x, T(1)) THEN LnConst(T(0)) ELSE [rat |-> T(0), ln |-> T(1)]
LnTimes(c, f) == [rat |-> RMul(c, f.rat), ln |-> RMul(c, f.ln)]
LnPlus(f, g) == [rat |-> RAdd(f.rat, g.rat), ln |-> RAdd(f.ln, g.ln)]
LnEq(f, g) == REq(f.rat, g.rat) /\ REq(f.ln, g.ln)

\* pow(const dual<T>& f, const dual<T>& y)
pow(f, y) ==
    LET real == StdPow(f.a, y.b)
        dpow_y == RMul(y.a, StdPow(f.a, RSub(y.a, T(1))))
        dpow_f == LnTimes(real, StdLog(f.a))
    IN  Dual(real, LnPlus(LnConst(RMul(dpow_y, f.b)), LnTimes(y.b, dpow_f)))

\* cbrt(const dual<T>& d)
cbrt(d) ==
    LET cbrt_a0 == StdCbrt(d.a)
        cbrt_a == RMul(cbrt_a0, cbrt_a0)
    IN  Dual(cbrt_a, RDiv(d.b, RAdd(RAdd(cbrt_a, cbrt_a), cbrt_a)))

\* The provider's cylinder functions are kept symbolic: a value is a linear
\* combination, with coefficients c, of the provider's function fn at the
\* orders BOrders and the argument at.
BOrders == {T(k) : k \in -(MaxVal + 1)..(MaxVal + 1)}
Cyl(fn, nu, x) ==
    [fn |-> fn, at |-> x, c |-> [j \in BOrders |-> IF REq(j, nu) THEN T(1) ELSE T(0)]]
CylTimes(s, z) == [z EXCEPT !.c = [j \in BOrders |-> RMul(s, z.c[j])]]
CylMinus(z, w) == [z EXCEPT !.c = [j \in BOrders |-> RSub(z.c[j], w.c[j])]]
CylEq(z, w) ==
    /\ z.fn = w.fn
    /\ z.at = w.at
    /\ \A j \in BOrders : REq(z.c[j], w.c[j])

\* The functors cyl_bessel_j and cyl_neumann pass: lambdas that call the
\* provider's std::cyl_bessel_j and std::cyl_neumann.  Cyl(bessel, nu, x) is
\* the call bessel(nu, x).
StdCylBesselJ == "cyl_bessel_j"
StdCylNeumann == "cyl_neumann"

\* calculateBesselFunctions(T nu, const dual<T2>& x, BesselFunctor&& bessel)
calculateBesselFunctions(nu, x, bessel) ==
    IF REq(nu, T(0))
    THEN Dual(Cyl(bessel, T(0), x.a), CylTimes(RNeg(x.b), Cyl(bessel, T(0), x.a)))
    ELSE Dual(Cyl(bessel, nu, x.a),
              CylTimes(RMul(Frac(1, 2), x.b),
                       CylMinus(Cyl(bessel, RSub(nu, T(1)), x.a),
                                Cyl(bessel, RAdd(nu, T(1)), x.a))))

cyl_bessel_j(nu, x) == calculateBesselFunctions(nu, x, StdCylBesselJ)
cyl_neumann(nu, x) == calculateBesselFunctions(nu, x, StdCylNeumann)

\* The arguments the functions are applied to: p has a cube as its value
\* component, q is any operand.
FnArgs == {Dual(T(k * k * k), b) : k \in -MaxRoot..MaxRoot, b \in Scalars}

InitFn ==
    /\ p \in FnArgs
    /\ q \in Duals
    /\ r = Zero
    /\ hist = <<>>
    /\ nw = NoNewton

\* cbrt(p)
OpCbrt ==
    /\ Len(hist) < MaxOps
    /\ Applied("cbrt", "p", T(0), Mem(p, q), cbrt(p))

\* pow(p, q), where the model computes std::pow and log: a base p.a() > 0.
OpPow ==
    /\ Len(hist) < MaxOps
    /\ RLess(T(0), p.a)
    /\ Applied("pow", "q", T(0), Mem(p, q), pow(p, q))

\* cyl_bessel_j(nu, p) and cyl_neumann(nu, p)
OpCylBesselJ ==
    /\ Len(hist) < MaxOps
    /\ \E nu \in Scalars :
        Applied("cyl_bessel_j", "p", nu, Mem(p, q), cyl_bessel_j(nu, p))

OpCylNeumann ==
    /\ Len(hist) < MaxOps
    /\ \E nu \in Scalars :
        Applied("cyl_neumann", "p", nu, Mem(p, q), cyl_neumann(nu, p))

NextFn ==
    \/ OpCbrt
    \/ OpPow
    \/ OpCylBesselJ
    \/ OpCylNeumann

SpecFn == InitFn /\ [][NextFn]_vars

\* ------------------------------------------------------------------------
\* The Newton-Raphson driver (DualNumber.cpp).

\* squareroot::squareroot(double n) : N{ n, 1.0 }
squareroot(n) == Dual(n, T(1))

\* squareroot::operator()(x): x * x - N
squareroot_call(N, x) ==
    LET xx == Times(Mem(x, N), "p", "p").t
    IN  Minus(Mem(xx, N), "p", "q").t

\* fabs_static(x)
fabs_static(x) == IF RLess(x, T(0)) THEN RNeg(x) ELSE x

\* 1.0E-15 < x.  Every finite nonzero magnitude the model can hold is at
\* least 1/2^31, which is greater than 1.0E-15.
ToleranceLess(x) == ~IsNaN(x) /\ ~IsZero(x) /\ x.s = 1

\* The doubles newtonMethod is started from and squareroot is built with.
Seeds == {Frac(i, j) : i \in -MaxVal..MaxVal, j \in 1..MaxVal}

\* newtonMethod(x0, squareroot{n}) before its first iteration; sqrt_newton(n)
\* is the case x0 = n.
InitNewton ==
    /\ p = Zero
    /\ q = Zero
    /\ r = Zero
    /\ hist = <<>>
    /\ \E x0 \in Seeds, n \in Seeds :
        nw = [pc |-> "loop", N |-> squareroot(n), xn |-> x0, diff |-> T(0),
              d |-> Zero, x |-> x0, it |-> 0]

\* One pass of the do-while loop: d = f({xn, 1.0}); diff = d.a() / d.b();
\* xn -= diff; then the loop condition.  x keeps the iterate f was called on.
NewtonStep ==
    /\ nw.pc = "loop"
    /\ nw.it < MaxIter
    /\ LET d == squareroot_call(nw.N, Dual(nw.xn, T(1)))
           diff == RDiv(d.a, d.b)
           xn == RSub(nw.xn, diff)
       IN  nw' = [nw EXCEPT !.d = d, !.diff = diff, !.xn = xn, !.x = nw.xn,
                           !.it = nw.it + 1,
                           !.pc = IF ToleranceLess(fabs_static(diff))
                                  THEN "loop" ELSE "done"]
    /\ UNCHANGED <<p, q, r, hist>>

NextNewton == NewtonStep

SpecNewton == InitNewton /\ [][NextNewton]_vars

\* ------------------------------------------------------------------------
\* Reading hist.

\* The object p after the i-th operation.
After(i) == IF i = Len(hist) THEN p ELSE hist[i + 1].p

\* The last operation, and the value its right operand held before it.
Last == hist[Len(hist)]
RhsOf(e) == IF e.rh = "p" THEN e.p ELSE IF e.rh = "q" THEN e.q ELSE Zero

\* The product and the quotient of the algebra, as the specification states
\* them: (a,b)(c,d) = (ac, ad + bc) and (a,b)/(c,d) = (a/c, (bc - ad)/c^2).
Product(x, y) ==
    Dual(RMul(x.a, y.a), RAdd(RMul(x.a, y.b), RMul(x.b, y.a)))

Quotient(x, y) ==
    Dual(RDiv(x.a, y.a),
         RDiv(RSub(RMul(x.b, y.a), RMul(x.a, y.b)), RMul(y.a, y.a)))

FiniteOperands(e) == DualFinite(e.p) /\ DualFinite(RhsOf(e))

\* ------------------------------------------------------------------------
\* C1: for finite dual numbers p = (a,b) and q = (c,d) held in distinct
\* objects, p * q and p *= q yield (a*c, a*d + b*c); p * p for p = (a,1) has
\* the derivative component 2a; the binary operator* modifies neither operand.
C1_ProductRule ==
    hist # <<>> =>
        LET e == Last
            x == e.p
            y == RhsOf(e)
        IN  /\ (e.op = "times" /\ FiniteOperands(e)) => DualEq(r, Product(x, y))
            /\ e.op = "times" => (p = e.p /\ q = e.q)
            /\ (e.op = "times" /\ e.rh = "p" /\ FiniteOperands(e) /\ REq(x.b, T(1)))
                   => REq(r.b, RMul(T(2), x.a))
            /\ (e.op = "mul_assign" /\ e.rh = "q" /\ FiniteOperands(e))
                   => (DualEq(p, Product(x, y)) /\ r = p /\ q = e.q)

\* p = (2,1) and q = (-1,2) in distinct objects, and p *= q left (-2,3) in p.
C1_Witness ==
    /\ hist # <<>>
    /\ Last.op = "mul_assign"
    /\ Last.rh = "q"
    /\ Last.p = Dual(T(2), T(1))
    /\ Last.q = Dual(T(-1), T(2))
    /\ p = Dual(T(-2), T(3))

DivisionOps == {"over", "div_assign", "scalar_over"}

\* C3, as claimed: dividing by a dual number whose value component is exactly
\* 0 signals a DivideByZero/DomainError condition instead of returning a
\* dual-number value.
C3_DivisionByZeroSignals ==
    hist # <<>> =>
        ((Last.op \in DivisionOps /\ IsZero(RhsOf(Last).a)) => Last.raised)

\* C3, amended: dividing by a dual number whose value component is exactly 0
\* raises nothing; it returns a dual number whose two components are both
\* non-finite (an infinity or NaN).
C3_DivisionByZeroNonFinite ==
    hist # <<>> =>
        ((Last.op \in DivisionOps /\ IsZero(RhsOf(Last).a))
             => (~Last.raised /\ ~IsFinite(r.a) /\ ~IsFinite(r.b)))

\* (1,1) / (0,1) returned (+inf, -inf).
C3_Witness ==
    /\ hist # <<>>
    /\ Last.op = "over"
    /\ Last.rh = "q"
    /\ Last.p = Dual(T(1), T(1))
    /\ Last.q = Dual(T(0), T(1))
    /\ IsInf(r.a)
    /\ IsInf(r.b)
    /\ ~Last.raised

\* C9: ID_Mul() is the multiplicative identity (1,0), so p * ID_Mul() == p and
\* ID_Mul() * p == p; ID_Add() and Zero() are (0,0), so p + ID_Add() == p.
C9_Identities ==
    hist # <<>> =>
        LET e == Last
        IN  /\ (e.op \in {"times_id", "id_times"} /\ DualFinite(e.p))
                   => (DualEq(ID_Mul, Dual(T(1), T(0))) /\ DualEq(r, e.p))
            /\ (e.op = "plus_id" /\ DualFinite(e.p))
                   => (DualEq(ID_Add, Dual(T(0), T(0))) /\ DualEq(Zero, ID_Add)
                       /\ DualEq(r, e.p))

\* ------------------------------------------------------------------------
InversionOps == {"inverse", "inverted", "inverted_free"}
ConjugationOps == {"conjugate", "conjugated", "conjugated_free"}

\* The multiplicative inverse (1/a, -b/a^2) of (a,b).
Reciprocal(x) ==
    Dual(RDiv(T(1), x.a), RNeg(RDiv(x.b, RMul(x.a, x.a))))

\* C4: for every finite p = (a,b) with a # 0, inverse(), inverted() and the
\* free function inverted leave (1/a, -b/a^2) in p, and p times that inverse
\* is (1,0).
C4_Inversion ==
    \A i \in DOMAIN hist :
        LET x == hist[i].p
        IN  (hist[i].op \in InversionOps /\ DualFinite(x) /\ ~IsZero(x.a)) =>
                /\ DualEq(After(i), Reciprocal(x))
                /\ DualEq(Product(x, After(i)), Dual(T(1), T(0)))

\* C5: inversion and conjugation are involutions: for finite p = (a,b),
\* conjugation leaves (a,-b), two conjugations leave a value equal to p, and
\* for a # 0 two inversions leave a value equal to p.
C5_Involutions ==
    \A i \in DOMAIN hist :
        LET x == hist[i].p
        IN  DualFinite(x) =>
                /\ hist[i].op \in ConjugationOps
                       => DualEq(After(i), Dual(x.a, RNeg(x.b)))
                /\ (i < Len(hist) /\ hist[i].op \in ConjugationOps
                        /\ hist[i + 1].op \in ConjugationOps)
                       => DualEq(After(i + 1), x)
                /\ (i < Len(hist) /\ hist[i].op \in InversionOps
                        /\ hist[i + 1].op \in InversionOps /\ ~IsZero(x.a))
                       => DualEq(After(i + 1), x)

\* p = (2,1) was inverted twice, through a value that is not p, and is (2,1)
\* again.
C5_Witness ==
    /\ Len(hist) = 2
    /\ hist[1].op \in InversionOps
    /\ hist[2].op \in InversionOps
    /\ hist[1].p = Dual(T(2), T(1))
    /\ ~DualEq(hist[2].p, hist[1].p)
    /\ p = Dual(T(2), T(1))

\* ------------------------------------------------------------------------
\* C6: for the order nu = 0 and a finite argument x = (a,b), cyl_bessel_j and
\* cyl_neumann return (Z0(a), -b * Z1(a)), Z the provider's function: the
\* derivative component is taken from the order 1; for nu # 0 they return
\* (Znu(a), 0.5 * b * (Z(nu-1)(a) - Z(nu+1)(a))).
C6_BesselRecurrence ==
    hist # <<>> =>
        LET e == Last
            x == e.p
            nu == e.sc
            fn == e.op
        IN  (e.op \in {"cyl_bessel_j", "cyl_neumann"} /\ DualFinite(x)) =>
                IF REq(nu, T(0))
                THEN /\ CylEq(r.a, Cyl(fn, T(0), x.a))
                     /\ CylEq(r.b, CylTimes(RNeg(x.b), Cyl(fn, T(1), x.a)))
                ELSE /\ CylEq(r.a, Cyl(fn, nu, x.a))
                     /\ CylEq(r.b, CylTimes(RMul(Frac(1, 2), x.b),
                                            CylMinus(Cyl(fn, RSub(nu, T(1)), x.a),
                                                     Cyl(fn, RAdd(nu, T(1)), x.a))))

\* C7: for a base f = (a,b), a > 0, and an exponent y = (c,d), pow(f, y) has
\* the value component pow(a,c) and the derivative component
\* pow(a,c) * (d * ln(a) + c * b / a) = c * pow(a,c-1) * b + pow(a,c) * ln(a) * d.
C7_PowDualDual ==
    hist # <<>> =>
        LET e == Last
            a == e.p.a
            b == e.p.b
            c == e.q.a
            d == e.q.b
        IN  e.op = "pow" =>
                /\ REq(r.a, StdPow(a, c))
                /\ LnEq(r.b, LnPlus(LnConst(RMul(RMul(c, StdPow(a, RSub(c, T(1)))), b)),
                                    LnTimes(RMul(StdPow(a, c), d), StdLog(a))))
                /\ LnEq(r.b, LnTimes(StdPow(a, c),
                                     LnPlus(LnTimes(d, StdLog(a)),
                                            LnConst(RDiv(RMul(c, b), a)))))

\* C8: for d = (a,b) with a # 0, cbrt(d) has the value component cbrt(a) and
\* the derivative component b / (3 * cbrt(a)^2); cbrt((8,1)) = (2, 1/12).
C8_Cbrt ==
    hist # <<>> =>
        LET e == Last
            a == e.p.a
            b == e.p.b
            root == StdCbrt(a)
        IN  (e.op = "cbrt" /\ ~IsZero(a)) =>
                /\ REq(r.a, root)
                /\ REq(RMul(RMul(r.a, r.a), r.a), a)
                /\ REq(r.b, RDiv(b, RMul(T(3), RMul(root, root))))

\* C10: in the square-root example N is carried with the derivative component
\* 0, so that f evaluated at the seed (x, 1) is (x^2 - N, 2x) at every iterate
\* x, and each loop step performs xn <- x - (x^2 - N) / (2x).
C10_NewtonSquareRoot ==
    (nw.pc # "idle" /\ nw.it > 0 /\ IsFinite(nw.x) /\ ~IsZero(nw.x)) =>
        LET n == nw.N.a
            x == nw.x
            value == RSub(RMul(x, x), n)
            slope == RMul(T(2), x)
        IN  /\ REq(nw.N.b, T(0))
            /\ DualEq(nw.d, Dual(value, slope))
            /\ REq(nw.xn, RSub(x, RDiv(value, slope)))

\* ------------------------------------------------------------------------
CompoundOps == {"add_assign", "sub_assign", "mul_assign", "div_assign"}

\* What the compound assignment named op leaves in its left operand when the
\* left operand holds x and the right operand is a distinct object holding y.
DistinctResult(op, x, y) ==
    IF op = "add_assign" THEN AddAssign(Mem(x, y), "p", "q").p
    ELSE IF op = "sub_assign" THEN SubAssign(Mem(x, y), "p", "q").p
    ELSE IF op = "mul_assign" THEN MulAssign(Mem(x, y), "p", "q").p
    ELSE DivAssign(Mem(x, y), "p", "q").p

\* C11: a compound assignment whose right operand is the object assigned to
\* leaves what it leaves when the right operand is a distinct object holding
\* an equal value: for finite p = (a,b), p += p leaves (2a,2b), p -= p leaves
\* (0,0), p *= p leaves (a*a, 2*a*b), and for a # 0 p /= p leaves (1,0).
C11_SelfAssignment ==
    hist # <<>> =>
        LET e == Last
            x == e.p
        IN  (e.op \in CompoundOps /\ e.rh = "p" /\ DualFinite(x)
                 /\ (e.op = "div_assign" => ~IsZero(x.a))) =>
                /\ DualEq(p, DistinctResult(e.op, x, x))
                /\ e.op = "add_assign"
                       => DualEq(p, Dual(RMul(T(2), x.a), RMul(T(2), x.b)))
                /\ e.op = "sub_assign" => DualEq(p, Dual(T(0), T(0)))
                /\ e.op = "mul_assign"
                       => DualEq(p, Dual(RMul(x.a, x.a),
                                         RMul(T(2), RMul(x.a, x.b))))
                /\ e.op = "div_assign" => DualEq(p, Dual(T(1), T(0)))

\* ------------------------------------------------------------------------
FreeForms == {"inverted_free", "conjugated_free"}
ReturningMembers == {"inverted", "conjugated"}

\* C12: the forms that get the inverse or the conjugate of a finite dual
\* number d = (a,b) - the free functions inverted(d) and conjugated(d) -
\* return (1/a, -b/a^2) for a # 0, respectively (a,-b), and leave d holding
\* (a,b); of the inversion and conjugation operations only inverse() and
\* conjugate() change the value the object holds.
C12_GetFormsLeaveArgument ==
    \A i \in DOMAIN hist :
        LET e == hist[i]
            x == e.p
        IN  DualFinite(x) =>
                /\ (e.op \in FreeForms /\ (e.op = "inverted_free" => ~IsZero(x.a)))
                       => DualEq(After(i), x)
                /\ (e.op \in ReturningMembers /\ (e.op = "inverted" => ~IsZero(x.a)))
                       => DualEq(After(i), x)
                /\ (e.op = "conjugated_free" /\ i = Len(hist))
                       => DualEq(r, Dual(x.a, RNeg(x.b)))
                /\ (e.op = "inverted_free" /\ i = Len(hist) /\ ~IsZero(x.a))
                       => DualEq(r, Reciprocal(x))
                /\ e.op = "conjugate" => DualEq(After(i), Dual(x.a, RNeg(x.b)))

====
